---- MODULE Spec2Model ----
(***************************************************************************)
(* MeOS live results servers: public/server.py (MeOSResultsHandler, main), *)
(* public/simple_server.py (MeOSHandler) and public/serve.py (Handler).    *)
(*                                                                         *)
(* Four state machines share the variables:                                *)
(*   SpecStart  the startup of the running script, its first requests and  *)
(*              its shutdown;                                              *)
(*   Spec       the serving loop of a started server: one request at a     *)
(*              time (socketserver.TCPServer), interleaved with the        *)
(*              external writer that replaces or removes the file;         *)
(*   SpecPair   two requests on the live route, one after the other, with  *)
(*              the file left alone: the same file state for both;         *)
(*   SpecSeq    two requests on the live route, the external writer acting *)
(*              only between them.                                         *)
(***************************************************************************)
EXTENDS Integers, Sequences, FiniteSets, TLC

VARIABLES
    script,       \* which script runs: "server", "simple_server", "serve"
    pcMain,       \* position of the script's main code
    port_offset,  \* main: loop variable of the port loop
    PORT,         \* main: PORT
    httpd,        \* main: httpd, None or the bound port
    attempts,     \* ports handed to TCPServer(), in order, with their outcome
    console,      \* what main reported to the operator
    open_sockets, \* ports of the server sockets the process holds open
    fileExists,   \* the splits file: present on disk
    fileBytes,    \* the splits file: its bytes
    fileMtime,    \* the splits file: modification time, in clock ticks
    pc,           \* position of the request in flight
    method,       \* request in flight: self.command
    path,         \* request in flight: self.path
    xml_content,  \* handler local: the decoded text read from the file
    mod_time,     \* handler local: os.path.getmtime result
    resp,         \* what the handler has sent on the connection
    prev,         \* history: an earlier request's outcome
    readAbsent,   \* history: the handler looked at the file and found none
    snapshot      \* history: the file version the handler read

vars == <<script, pcMain, port_offset, PORT, httpd, attempts, console, open_sockets,
          fileExists, fileBytes, fileMtime,
          pc, method, path, xml_content, mod_time, resp, prev, readAbsent,
          snapshot>>

mainVars == <<pcMain, port_offset, PORT, httpd, attempts, console, open_sockets>>
fileVars == <<fileExists, fileBytes, fileMtime>>
reqVars  == <<pc, method, path, xml_content, mod_time, resp, prev, readAbsent,
             snapshot>>

(***************************************************************************)
(* Bounds of the model.                                                    *)
(***************************************************************************)
MaxLen == 2           \* longest file content the writer produces, in bytes
MaxTime == 2          \* latest modification time, in clock ticks
TicksPerSecond == 2   \* clock ticks in a second (mtime is sub-second)

(***************************************************************************)
(* Program constants.                                                      *)
(***************************************************************************)
MAX_PORT_ATTEMPTS == 10
ServerPort == 8001
SimplePort == 8000
WSAEADDRINUSE == 10048
WSAEACCES == 10013

None == 0
NoErr == 0

Scripts == {"server", "simple_server", "serve"}

\* errno values the operating system may hand to a failed bind: the two
\* main() names, and two it does not (EADDRINUSE of POSIX, WSAEADDRNOTAVAIL)
BindErrnos == {WSAEADDRINUSE, WSAEACCES, 98, 10049}

(***************************************************************************)
(* Bytes and text.  A file is a sequence of bytes; the handlers read it in *)
(* text mode (utf-8, universal newlines) and send the text re-encoded.     *)
(***************************************************************************)
LF == 10
CR == 13
Bytes == {CR, 195, 169}     \* "\r", and the two bytes of U+00E9

RECURSIVE SeqsUpTo(_, _)
SeqsUpTo(S, n) ==
    IF n = 0 THEN {<<>>}
    ELSE LET shorter == SeqsUpTo(S, n - 1)
         IN  shorter \cup {Append(s, x) : s \in {t \in shorter : Len(t) = n - 1}, x \in S}

IsLead2(b) == b >= 194 /\ b <= 223
IsCont(b)  == b >= 128 /\ b <= 191

\* bytes.decode('utf-8'): the code points, or <<-1>> for UnicodeDecodeError
RECURSIVE Utf8Decode(_)
Utf8Decode(bs) ==
    IF bs = <<>> THEN <<>>
    ELSE IF bs[1] < 128
         THEN LET rest == Utf8Decode(Tail(bs))
              IN  IF rest = <<-1>> THEN <<-1>> ELSE <<bs[1]>> \o rest
    ELSE IF IsLead2(bs[1]) /\ Len(bs) >= 2 /\ IsCont(bs[2])
         THEN LET rest == Utf8Decode(Tail(Tail(bs)))
              IN  IF rest = <<-1>> THEN <<-1>>
                  ELSE <<(bs[1] - 192) * 64 + (bs[2] - 128)>> \o rest
    ELSE <<-1>>

DecodeError == <<-1>>

\* str.encode('utf-8')
RECURSIVE Utf8Encode(_)
Utf8Encode(cs) ==
    IF cs = <<>> THEN <<>>
    ELSE IF cs[1] < 128 THEN <<cs[1]>> \o Utf8Encode(Tail(cs))
    ELSE <<192 + (cs[1] \div 64), 128 + (cs[1] % 64)>> \o Utf8Encode(Tail(cs))

\* text mode, newline=None: "\r\n" and "\r" are read as "\n"
RECURSIVE UniversalNewlines(_)
UniversalNewlines(cs) ==
    IF cs = <<>> THEN <<>>
    ELSE IF cs[1] = CR /\ Len(cs) >= 2 /\ cs[2] = LF
         THEN <<LF>> \o UniversalNewlines(Tail(Tail(cs)))
    ELSE IF cs[1] = CR THEN <<LF>> \o UniversalNewlines(Tail(cs))
    ELSE <<cs[1]>> \o UniversalNewlines(Tail(cs))

\* open(path, 'r', encoding='utf-8').read()
ReadText(bs) ==
    LET cs == Utf8Decode(bs)
    IN  IF cs = DecodeError THEN DecodeError ELSE UniversalNewlines(cs)

\* the contents the external writer may leave in the file
Contents == SeqsUpTo(Bytes, MaxLen)

(***************************************************************************)
(* Responses.  A response is what has been put on the connection: the      *)
(* status lines, the header block and the body.                            *)
(***************************************************************************)
splits_xml_path == "MeOS Live Export.xml"
LiveRoute == "/load-splits-xml"
LiveRouteQuery == "/load-splits-xml?t=1"
Paths == {LiveRoute, LiveRouteQuery, "/live_results.html", "/missing.html"}
Methods == {"GET", "HEAD", "OPTIONS", "POST"}

\* the files under the served directory, with their bytes
StaticFiles == {"/live_results.html"}
StaticBytes == <<LF>>

NoResp ==
    [status |-> <<>>, reason |-> <<>>, contentType |-> "", contentLength |-> -1,
     lastModified |-> -1, xFilePath |-> "", xFileSize |-> -1,
     acao |-> "", acam |-> "", acah |-> "",
     headersEnded |-> FALSE, body |-> <<>>, errBody |-> <<>>, aborted |-> FALSE]

send_response(r, code) == [r EXCEPT !.status = Append(@, code)]

\* mutation of end_headers: the header block is ended as the base class
\* does, without the CORS headers
end_headers_base(r) == [r EXCEPT !.headersEnded = TRUE]

\* end_headers of the three handlers: the CORS headers, then the header block
end_headers(r) ==
    [r EXCEPT !.acao = "*", !.acam = "GET, POST, OPTIONS", !.acah = "Content-Type",
              !.headersEnded = TRUE]

\* BaseHTTPRequestHandler.send_error(code, message): status line with the
\* message, an HTML page holding the message as body, no body for HEAD
send_error(r, code, message, command) ==
    LET r1 == [send_response(r, code) EXCEPT
                   !.reason = message,
                   !.contentType = "text/html;charset=utf-8",
                   !.contentLength = Len(message)]
        r2 == end_headers(r1)
    IN  IF command = "HEAD" THEN r2 ELSE [r2 EXCEPT !.errBody = message]

\* urllib.parse.urlparse(self.path).path
urlparse_path(p) == IF p = LiveRouteQuery THEN LiveRoute ELSE p

\* mutation of date_time_string: the date is written without its seconds
date_time_string_minutes(t) == t \div (TicksPerSecond * 60)

\* self.date_time_string(timestamp): an HTTP date, whole seconds
date_time_string(t) == t \div TicksPerSecond

\* SimpleHTTPRequestHandler.do_GET / do_HEAD: the file under the served
\* directory, or 404 File not found
static_response(p, command) ==
    IF urlparse_path(p) \in StaticFiles
    THEN LET r1 == [send_response(NoResp, 200) EXCEPT
                        !.contentType = "text/html",
                        !.contentLength = Len(StaticBytes),
                        !.lastModified = 0]
             r2 == end_headers(r1)
         IN  IF command = "HEAD" THEN r2 ELSE [r2 EXCEPT !.body = StaticBytes]
    ELSE send_error(NoResp, 404, <<"File not found">>, command)

\* BaseHTTPRequestHandler.handle_one_request when the class has no do_<command>
unsupported_method(command) ==
    send_error(NoResp, 501, <<"Unsupported method (", command, ")">>, command)

(***************************************************************************)
(* Startup: main() of server.py, and the module code of simple_server.py   *)
(* and serve.py.  TCPServer((host, port), Handler) binds and listens in    *)
(* its constructor; the operating system decides the outcome.              *)
(***************************************************************************)
BasePort(s) == IF s = "server" THEN ServerPort ELSE SimplePort

\* mutation of IsRetryable: every OSError is retried
IsRetryableAnyError(e) == e # NoErr

\* e.errno == 10048 or e.errno == 10013
IsRetryable(e) == e = WSAEADDRINUSE \/ e = WSAEACCES

\* mutation of MoreAttempts: the last attempt is not told apart
MoreAttemptsOffByOne(off) == off < MAX_PORT_ATTEMPTS

\* port_offset < MAX_PORT_ATTEMPTS - 1
MoreAttempts(off) == off < MAX_PORT_ATTEMPTS - 1

\* mutation of PortAfterBind: PORT is left at the preferred port
PortAfterBindKept(P, try_port) == P

\* PORT = try_port
PortAfterBind(P, try_port) == try_port

\* mutation of server_close: the socket is left open
server_close_skipped(socks, p) == socks

\* TCPServer.server_close(): the server socket on port p is closed
server_close(socks, p) == socks \ {p}

\* one iteration of the loop of main(), the bind answering with errno e
\* (NoErr: bound), and what follows the loop when it ends
TryBind(e) ==
    /\ script = "server"
    /\ pcMain = "binding"
    /\ port_offset < MAX_PORT_ATTEMPTS
    /\ LET try_port == PORT + port_offset IN
       /\ attempts' = Append(attempts, [port |-> try_port, errno |-> e])
       /\ open_sockets' = IF e = NoErr THEN open_sockets \cup {try_port}
                          ELSE server_close(open_sockets \cup {try_port}, try_port)
       /\ IF e = NoErr
          THEN /\ httpd' = try_port
               /\ PORT' = PortAfterBind(PORT, try_port)
               /\ console' = Append(console, <<"started", PortAfterBind(PORT, try_port)>>)
               /\ pcMain' = "serving"
               /\ UNCHANGED port_offset
          ELSE IF IsRetryable(e)
          THEN IF MoreAttempts(port_offset)
               THEN IF port_offset + 1 < MAX_PORT_ATTEMPTS
                    THEN /\ port_offset' = port_offset + 1
                         /\ console' = Append(console, <<"in use", try_port>>)
                         /\ UNCHANGED <<pcMain, PORT, httpd>>
                    ELSE /\ console' = console \o <<<<"in use", try_port>>, <<"failed">>>>
                         /\ pcMain' = "returned"
                         /\ UNCHANGED <<port_offset, PORT, httpd>>
               ELSE /\ console' = Append(console,
                                     <<"exhausted", PORT, PORT + MAX_PORT_ATTEMPTS - 1>>)
                    /\ pcMain' = "returned"
                    /\ UNCHANGED <<port_offset, PORT, httpd>>
          ELSE /\ pcMain' = "raised"
               /\ UNCHANGED <<port_offset, PORT, httpd, console>>
    /\ UNCHANGED <<script, fileVars, reqVars>>

\* simple_server.py and serve.py: one TCPServer(("", PORT), ...), no handler
\* around it
SimpleBind(e) ==
    /\ script \in {"simple_server", "serve"}
    /\ pcMain = "binding"
    /\ attempts = <<>>
    /\ attempts' = <<[port |-> PORT, errno |-> e]>>
    /\ open_sockets' = IF e = NoErr THEN open_sockets \cup {PORT}
                       ELSE server_close(open_sockets \cup {PORT}, PORT)
    /\ IF e = NoErr
       THEN /\ httpd' = PORT
            /\ pcMain' = "serving"
            /\ console' = Append(console, <<"started", PORT>>)
       ELSE /\ pcMain' = "raised"
            /\ UNCHANGED <<httpd, console>>
    /\ UNCHANGED <<script, port_offset, PORT, fileVars, reqVars>>

\* Ctrl+C in serve_forever: the finally clause (server.py) or the with
\* statement closes the socket
KeyboardInterrupt ==
    /\ pcMain = "serving"
    /\ pc \in {"idle", "done"}
    /\ pcMain' = "stopped"
    /\ open_sockets' = server_close(open_sockets, httpd)
    /\ UNCHANGED <<script, port_offset, PORT, httpd, attempts, console, fileVars, reqVars>>

NoPrev == [lastModified |-> -1, mod_time |-> -1, method |-> "", resp |-> NoResp]

NoSnapshot == [bytes |-> <<>>, mtime |-> -1]

IdleRequest ==
    /\ pc = "idle"
    /\ method = "GET"
    /\ path = LiveRoute
    /\ xml_content = <<>>
    /\ mod_time = -1
    /\ resp = NoResp
    /\ prev = NoPrev
    /\ readAbsent = FALSE
    /\ snapshot = NoSnapshot

InitFile ==
    /\ fileExists \in BOOLEAN
    /\ fileBytes \in (IF fileExists THEN Contents ELSE {<<>>})
    /\ fileMtime = 0

InitStart ==
    /\ script \in Scripts
    /\ pcMain = "binding"
    /\ port_offset = 0
    /\ PORT = BasePort(script)
    /\ httpd = None
    /\ attempts = <<>>
    /\ console = <<>>
    /\ open_sockets = {}
    /\ fileExists \in BOOLEAN
    /\ fileBytes = (IF fileExists THEN <<LF>> ELSE <<>>)
    /\ fileMtime = 0
    /\ IdleRequest

(***************************************************************************)
(* Serving.  socketserver.TCPServer handles one request at a time; the     *)
(* external writer and the clock run between any two steps of a handler.   *)
(***************************************************************************)

\* the path a script serves on the live route
ConfiguredPath(s) == IF s = "server" THEN splits_xml_path ELSE "splits test.xml"

\* do_GET / do_HEAD of the running handler class hand the request to the
\* code that reads the splits file
RoutesToLive(s, m, p) ==
    \/ s = "server" /\ m = "GET" /\ urlparse_path(p) = LiveRoute
    \/ s = "simple_server" /\ m \in {"GET", "HEAD"} /\ p = LiveRoute

\* do_OPTIONS of server.py and simple_server.py
do_OPTIONS == end_headers(send_response(NoResp, 200))

\* every other request: the inherited static handler, do_OPTIONS where the
\* class defines it, 501 where the class has no do_<command>
OtherResponse(s, m, p) ==
    IF m \in {"GET", "HEAD"} THEN static_response(p, m)
    ELSE IF m = "OPTIONS" /\ s \in {"server", "simple_server"} THEN do_OPTIONS
    ELSE unsupported_method(m)

\* the 404 message of the live route
NotFoundMessage(s) ==
    IF s = "server" THEN <<"Splits XML file not found: ", ConfiguredPath(s)>>
    ELSE <<"Splits XML file not found">>

\* the 500 message of the live route, for the exception text cause
ReadErrorMessage(s, cause) ==
    IF s = "server" THEN <<"Error reading splits XML: ", cause>> ELSE <<cause>>

\* mutation of ContentLengthOf: the characters are counted, not the bytes
ContentLengthInChars(text) == Len(text)

\* str(len(xml_content.encode('utf-8')))
ContentLengthOf(text) == Len(Utf8Encode(text))

FileSizeOf(text) == Len(text)

BodyOf(text) == Utf8Encode(text)

\* the 200 response of the live route from the handler's locals
OkResponse(s, m, text, mtime) ==
    LET r1 == [send_response(NoResp, 200) EXCEPT
                   !.contentType = "application/xml; charset=utf-8",
                   !.contentLength = ContentLengthOf(text)]
        r2 == IF s = "server"
              THEN [r1 EXCEPT !.lastModified = date_time_string(mtime),
                              !.xFilePath = ConfiguredPath(s),
                              !.xFileSize = FileSizeOf(text)]
              ELSE r1
        r3 == end_headers(r2)
    IN  IF m = "HEAD" THEN r3 ELSE [r3 EXCEPT !.body = BodyOf(text)]

\* an exception raised inside the handler: the except clause answers 500;
\* do_HEAD of simple_server.py has none, the exception leaves the handler
\* and socketserver closes the connection
OnException(s, m, r, cause) ==
    IF s = "simple_server" /\ m = "HEAD"
    THEN [r EXCEPT !.aborted = TRUE]
    ELSE send_error(r, 500, ReadErrorMessage(s, cause), m)

\* serve_forever takes the next request off the socket
Accept(m, p) ==
    /\ pcMain = "serving"
    /\ pc \in {"idle", "done"}
    /\ pc' = "dispatch"
    /\ method' = m
    /\ path' = p
    /\ xml_content' = <<>>
    /\ mod_time' = -1
    /\ resp' = NoResp
    /\ readAbsent' = FALSE
    /\ snapshot' = NoSnapshot
    /\ prev' \in {prev} \cup
           (IF pc = "done" /\ resp.status = <<200>> /\ RoutesToLive(script, method, path)
            THEN {[NoPrev EXCEPT !.lastModified = resp.lastModified,
                                 !.mod_time = mod_time]}
            ELSE {})
    /\ UNCHANGED <<script, mainVars, fileVars>>

\* do_GET, do_HEAD, do_OPTIONS or the missing do_<command>
Dispatch ==
    /\ pc = "dispatch"
    /\ IF RoutesToLive(script, method, path)
       THEN /\ pc' = "exists"
            /\ UNCHANGED resp
       ELSE /\ pc' = "done"
            /\ resp' = OtherResponse(script, method, path)
    /\ UNCHANGED <<script, mainVars, fileVars, method, path, xml_content, mod_time,
                   prev, readAbsent, snapshot>>

\* splits_xml_path.exists()
ExistsCheck ==
    /\ pc = "exists"
    /\ IF fileExists
       THEN /\ pc' = "read"
            /\ UNCHANGED <<resp, readAbsent>>
       ELSE /\ pc' = "done"
            /\ resp' = send_error(resp, 404, NotFoundMessage(script), method)
            /\ readAbsent' = TRUE
    /\ UNCHANGED <<script, mainVars, fileVars, method, path, xml_content, mod_time, prev,
                   snapshot>>

\* with open(path, 'r', encoding='utf-8') as f: f.read(); the open is
\* refused while another process holds the file open exclusively (locked)
OpenRead(locked) ==
    /\ pc = "read"
    /\ IF ~fileExists
       THEN /\ pc' = "done"
            /\ resp' = OnException(script, method, resp, "FileNotFoundError")
            /\ readAbsent' = TRUE
            /\ UNCHANGED <<xml_content, snapshot>>
       ELSE IF locked
       THEN /\ pc' = "done"
            /\ resp' = OnException(script, method, resp, "PermissionError")
            /\ UNCHANGED <<xml_content, readAbsent, snapshot>>
       ELSE IF ReadText(fileBytes) = DecodeError
       THEN /\ pc' = "done"
            /\ resp' = OnException(script, method, resp, "UnicodeDecodeError")
            /\ UNCHANGED <<xml_content, readAbsent, snapshot>>
       ELSE /\ xml_content' = ReadText(fileBytes)
            /\ snapshot' = [bytes |-> fileBytes, mtime |-> fileMtime]
            /\ pc' = IF script = "server" THEN "getmtime" ELSE "respond"
            /\ UNCHANGED <<resp, readAbsent>>
    /\ UNCHANGED <<script, mainVars, fileVars, method, path, mod_time, prev>>

\* os.path.getmtime(path), server.py only
GetMtime ==
    /\ pc = "getmtime"
    /\ IF fileExists
       THEN /\ mod_time' = fileMtime
            /\ pc' = "respond"
            /\ UNCHANGED resp
       ELSE /\ pc' = "done"
            /\ resp' = OnException(script, method, resp, "FileNotFoundError")
            /\ UNCHANGED mod_time
    /\ UNCHANGED <<script, mainVars, fileVars, method, path, xml_content, prev, readAbsent,
                   snapshot>>

\* send_response(200), the headers, end_headers, wfile.write; the write of
\* the body raises when the client has gone (writeFails), inside the try of
\* the GET handlers
Respond(writeFails) ==
    /\ pc = "respond"
    /\ writeFails => method = "GET"
    /\ resp' = IF writeFails
               THEN OnException(script, method,
                                OkResponse(script, "HEAD", xml_content, mod_time),
                                "BrokenPipeError")
               ELSE OkResponse(script, method, xml_content, mod_time)
    /\ pc' = "done"
    /\ UNCHANGED <<script, mainVars, fileVars, method, path, xml_content, mod_time,
                   prev, readAbsent, snapshot>>

\* the external writer replaces or creates the file, at time t
WriterWrite(c, t) ==
    /\ t >= fileMtime
    /\ fileExists' = TRUE
    /\ fileBytes' = c
    /\ fileMtime' = t
    /\ UNCHANGED <<script, mainVars, reqVars>>

\* the external writer removes the file
WriterRemove ==
    /\ fileExists
    /\ fileExists' = FALSE
    /\ fileBytes' = <<>>
    /\ UNCHANGED <<script, mainVars, fileMtime, reqVars>>

\* the startup, and the first requests of a started server
NextStart ==
    \/ \E e \in {NoErr} \cup BindErrnos : TryBind(e)
    \/ \E e \in {NoErr} \cup BindErrnos : SimpleBind(e)
    \/ \E m \in {"GET", "OPTIONS"} : Accept(m, "/live_results.html")
    \/ Dispatch
    \/ KeyboardInterrupt

SpecStart == InitStart /\ [][NextStart]_vars

\* a started server: the first bind succeeded
Init ==
    /\ script \in Scripts
    /\ pcMain = "serving"
    /\ port_offset = 0
    /\ PORT = BasePort(script)
    /\ httpd = BasePort(script)
    /\ attempts = <<[port |-> BasePort(script), errno |-> NoErr]>>
    /\ console = <<<<"started", BasePort(script)>>>>
    /\ open_sockets = {BasePort(script)}
    /\ InitFile
    /\ IdleRequest

Next ==
    \/ \E m \in Methods, p \in Paths : Accept(m, p)
    \/ Dispatch
    \/ ExistsCheck
    \/ \E locked \in BOOLEAN : OpenRead(locked)
    \/ GetMtime
    \/ \E writeFails \in BOOLEAN : Respond(writeFails)
    \/ \E c \in Contents, t \in 0..MaxTime : WriterWrite(c, t)
    \/ WriterRemove

Spec == Init /\ [][Next]_vars

\* the first of two requests on the live route
AcceptFirst(m) ==
    /\ pc = "idle"
    /\ Accept(m, LiveRoute)

\* the second of two requests on the live route; the first one's response
\* is kept
AcceptSecond(m) ==
    /\ pcMain = "serving"
    /\ pc = "done"
    /\ prev = NoPrev
    /\ pc' = "dispatch"
    /\ method' = m
    /\ path' = LiveRoute
    /\ xml_content' = <<>>
    /\ mod_time' = -1
    /\ resp' = NoResp
    /\ readAbsent' = FALSE
    /\ snapshot' = NoSnapshot
    /\ prev' = [lastModified |-> resp.lastModified, mod_time |-> mod_time,
                method |-> method, resp |-> resp]
    /\ UNCHANGED <<script, mainVars, fileVars>>

NextPair ==
    \/ \E m \in {"GET", "HEAD"} : AcceptFirst(m)
    \/ \E m \in {"GET", "HEAD"} : AcceptSecond(m)
    \/ Dispatch
    \/ ExistsCheck
    \/ OpenRead(FALSE)
    \/ GetMtime
    \/ Respond(FALSE)

SpecPair == Init /\ [][NextPair]_vars

\* the first request is over, its response is kept; the server waits in
\* serve_forever
FirstOver ==
    /\ pc = "done"
    /\ prev = NoPrev
    /\ pc' = "between"
    /\ prev' = [lastModified |-> resp.lastModified, mod_time |-> mod_time,
                method |-> method, resp |-> resp]
    /\ UNCHANGED <<script, mainVars, fileVars, method, path, xml_content, mod_time, resp,
                   readAbsent, snapshot>>

\* the external writer acts while no request is in flight
WriteBetween(c, t) ==
    /\ pc = "between"
    /\ WriterWrite(c, t)

RemoveBetween ==
    /\ pc = "between"
    /\ WriterRemove

\* the later request on the live route
AcceptLater(m) ==
    /\ pcMain = "serving"
    /\ pc = "between"
    /\ pc' = "dispatch"
    /\ method' = m
    /\ path' = LiveRoute
    /\ xml_content' = <<>>
    /\ mod_time' = -1
    /\ resp' = NoResp
    /\ readAbsent' = FALSE
    /\ snapshot' = NoSnapshot
    /\ UNCHANGED <<script, mainVars, fileVars, prev>>

NextSeq ==
    \/ \E m \in {"GET", "HEAD"} : AcceptFirst(m)
    \/ FirstOver
    \/ \E c \in Contents, t \in 0..MaxTime : WriteBetween(c, t)
    \/ RemoveBetween
    \/ \E m \in {"GET", "HEAD"} : AcceptLater(m)
    \/ Dispatch
    \/ ExistsCheck
    \/ OpenRead(FALSE)
    \/ GetMtime
    \/ Respond(FALSE)

SpecSeq == Init /\ [][NextSeq]_vars

(***************************************************************************)
(* Properties of the startup (SpecStart).                                  *)
(***************************************************************************)
\* a bind outcome the port loop treats as "port in use or access denied"
Occupied(e) == e \in {WSAEADDRINUSE, WSAEACCES}

AllOccupied(n) == \A i \in 1..n : Occupied(attempts[i].errno)

PortsInOrder == \A i \in 1..Len(attempts) : attempts[i].port = ServerPort + i - 1

FatalBindError ==
    script = "server" =>
        \A i \in 1..Len(attempts) :
            (attempts[i].errno # NoErr /\ ~Occupied(attempts[i].errno))
               => /\ i = Len(attempts)
                  /\ pcMain = "raised"
                  /\ httpd = None
                  /\ \A j \in 1..Len(console) : console[j][1] \notin {"exhausted", "started"}

\* C3 witness: P occupied, then an unclassified failure on P+1
FatalBindErrorWitness ==
    /\ script = "server"
    /\ Len(attempts) = 2
    /\ Occupied(attempts[1].errno)
    /\ attempts[2].errno = 98
    /\ pcMain = "raised"

(***************************************************************************)
(* Properties of the live route (Spec, SpecPair).                          *)
(***************************************************************************)
\* the request in flight was answered by the code of the live route
LiveDone == pc = "done" /\ RoutesToLive(script, method, path)

Ok200 == resp.status = <<200>>

\* C4: GET /load-splits-xml on a file holding valid content C answers 200
\* with body exactly the bytes of C and Content-Length the byte length of C.
GetReturnsFileBytes ==
    (LiveDone /\ method = "GET" /\ Ok200 /\ snapshot # NoSnapshot)
       => /\ resp.body = snapshot.bytes
          /\ resp.contentLength = Len(snapshot.bytes)

\* C5: whatever the external writer does during a GET /load-splits-xml, a
\* 200 response carries as many body bytes as its own Content-Length says,
\* the body being the encoding of the text read once from the file.
ResponseSelfConsistent ==
    (LiveDone /\ method = "GET" /\ Ok200)
       => /\ Len(resp.body) = resp.contentLength
          /\ resp.body = Utf8Encode(ReadText(snapshot.bytes))

\* C5 witness: a 200 response of server.py completed although the file was
\* replaced between the read and the getmtime of the same request
ResponseSelfConsistentWitness ==
    /\ LiveDone /\ method = "GET" /\ Ok200
    /\ script = "server"
    /\ mod_time # snapshot.mtime
    /\ Len(resp.body) = 2

\* C6: a GET /load-splits-xml that finds no file is answered 404 and the
\* body of the response names the configured path.
Missing404NamesPath ==
    (LiveDone /\ method = "GET" /\ resp.status = <<404>>)
       => \E i \in 1..Len(resp.errBody) : resp.errBody[i] = ConfiguredPath(script)

\* C7: a GET or HEAD on /load-splits-xml that finds the file absent when it
\* looks for it or opens it is answered 404, never 500 and never left
\* without a response.
MissingFileIs404 ==
    (LiveDone /\ readAbsent) => resp.status = <<404>>

\* the header block of a response
Headers(r) ==
    <<r.contentType, r.contentLength, r.lastModified, r.xFilePath, r.xFileSize,
      r.acao, r.acam, r.acah>>

\* C8: HEAD and GET on /load-splits-xml against the same file state give the
\* same status and the same headers, HEAD with an empty body and with the
\* Content-Length of the body GET sends.
HeadEqualsGet ==
    (pc = "done" /\ method = "HEAD" /\ prev.method = "GET")
       => /\ resp.status = prev.resp.status
          /\ Headers(resp) = Headers(prev.resp)
          /\ resp.body = <<>> /\ resp.errBody = <<>>
          /\ prev.resp.status = <<200>> => resp.contentLength = Len(prev.resp.body)

\* two 200 responses of the live route of server.py, an earlier one and the
\* one just completed
TwoOkResponses ==
    /\ LiveDone /\ Ok200 /\ script = "server"
    /\ prev # NoPrev

WholeSecond(t) == t \div TicksPerSecond

\* C9 as stated: the Last-Modified values of two successful requests differ
\* if and only if the modification times seen by the two requests differ.
LastModifiedIffMtimeChanged ==
    TwoOkResponses =>
        (resp.lastModified # prev.lastModified <=> mod_time # prev.mod_time)

\* C9 as amended: the Last-Modified values of two successful requests to
\* server.py differ if and only if the modification times seen by the two
\* requests lie in different whole seconds; so an unchanged modification
\* time never changes the header, and a change within one second does not
\* show in it.
LastModifiedIffSecondChanged ==
    TwoOkResponses =>
        /\ mod_time = prev.mod_time => resp.lastModified = prev.lastModified
        /\ resp.lastModified # prev.lastModified
              <=> WholeSecond(mod_time) # WholeSecond(prev.mod_time)

\* C9 witness: two successful requests saw different modification times of
\* the same second and sent the same Last-Modified
LastModifiedSameSecondWitness ==
    /\ TwoOkResponses
    /\ mod_time # prev.mod_time
    /\ resp.lastModified = prev.lastModified

\* C10: OPTIONS on any path is answered 200 with an empty body and the three
\* CORS headers, by every handler class.
OptionsAlways200 ==
    (pc = "done" /\ method = "OPTIONS")
       => /\ resp.status = <<200>>
          /\ resp.body = <<>> /\ resp.errBody = <<>>
          /\ resp.acao = "*"
          /\ resp.acam = "GET, POST, OPTIONS"
          /\ resp.acah = "Content-Type"

HasCors(r) ==
    /\ r.acao = "*"
    /\ r.acam = "GET, POST, OPTIONS"
    /\ r.acah = "Content-Type"

\* C11: every response of every handler class, whatever the method, the
\* path and the outcome (200, 404, 501, 500, static files), carries the
\* three CORS headers: no header block is ended without them.
EveryResponseHasCors ==
    /\ resp.status # <<>> => resp.headersEnded
    /\ resp.headersEnded => HasCors(resp)

\* C11 witness: an error response of the live route, with the CORS headers
EveryResponseHasCorsWitness ==
    /\ LiveDone
    /\ resp.status = <<500>>
    /\ HasCors(resp)

\* C12: on /load-splits-xml, GET and HEAD are handed to the code of the live
\* route, never to the static handler, and a method other than GET, HEAD
\* and OPTIONS is answered 405 (server.py and simple_server.py, the scripts
\* that have the route).
RoutingOnLiveRoute ==
    (pc = "done" /\ path = LiveRoute /\ script \in {"server", "simple_server"})
       => /\ method \in {"GET", "HEAD"} => RoutesToLive(script, method, path)
          /\ method \notin {"GET", "HEAD", "OPTIONS"} => resp.status = <<405>>

\* the later of two requests is a GET answered by the live route, on a file
\* that is present and holds valid UTF-8 (SpecSeq: the file is what it was
\* during the whole request)
LaterGetOnValidFile ==
    /\ LiveDone /\ method = "GET"
    /\ prev # NoPrev
    /\ fileExists
    /\ Utf8Decode(fileBytes) # DecodeError

\* C13: after a request that ended in 404, in 500 or without a response,
\* the server still serves, and a later GET /load-splits-xml on a present,
\* readable file answers 200 with that file's content.
ErrorsContained ==
    (LaterGetOnValidFile
       /\ (prev.resp.status \in {<<404>>, <<500>>} \/ prev.resp.aborted))
       => /\ pcMain = "serving"
          /\ resp.status = <<200>>
          /\ resp.body = fileBytes

\* C16: nothing is cached across requests: a GET /load-splits-xml that
\* starts after the external writer left content C in the file, with no
\* later write, answers 200 with body C, whatever an earlier request was
\* served, and never a bodiless 304.
NoCrossRequestCaching ==
    LaterGetOnValidFile
       => /\ resp.status = <<200>>
          /\ resp.body = fileBytes
          /\ snapshot.bytes = fileBytes

\* C17: on a 200 response of /load-splits-xml, X-File-Size is the byte size
\* of the served content, equal to the Content-Length of the same response,
\* and X-File-Path is the configured path.
FileSizeIsByteSize ==
    (LiveDone /\ Ok200 /\ script = "server")
       => /\ resp.xFileSize = resp.contentLength
          /\ resp.xFilePath = ConfiguredPath(script)

\* the read of an existing file failed: the open was refused or the bytes
\* are not UTF-8
ReadFailed == LiveDone /\ snapshot = NoSnapshot /\ ~readAbsent

Causes == {"PermissionError", "UnicodeDecodeError"}

\* C18: a read failure of an existing file on /load-splits-xml, GET or HEAD,
\* ends in a single 500 that names the cause (in its body for GET), with
\* the CORS headers.
ReadFailureIs500 ==
    ReadFailed
       => /\ resp.status = <<500>>
          /\ ~resp.aborted
          /\ HasCors(resp)
          /\ \E cause \in Causes :
                /\ resp.reason = ReadErrorMessage(script, cause)
                /\ method = "GET" => resp.errBody = resp.reason

\* C19: the Last-Modified of a 200 response of /load-splits-xml is the
\* modification time of the file version whose content is in the body,
\* whatever the external writer does during the request.
LastModifiedOfServedVersion ==
    (LiveDone /\ Ok200 /\ script = "server")
       => resp.lastModified = date_time_string(snapshot.mtime)

\* C20: every GET or HEAD on /load-splits-xml ends with exactly one status
\* line and one header block, 200, 404 or 500: no 500 follows a 200 that
\* was already sent, and no request ends without a response.
ExactlyOneResponse ==
    LiveDone
       => /\ Len(resp.status) = 1
          /\ resp.status[1] \in {200, 404, 500}
          /\ resp.headersEnded
          /\ ~resp.aborted

\* a request is in flight: its handler has been entered and has not returned
InFlight == pc \in {"dispatch", "exists", "read", "getmtime", "respond"}

\* C14: while one client's request is in flight and makes no progress, the
\* server can take another client's request off the socket.
StalledClientBlocksNoOne ==
    (pcMain = "serving" /\ InFlight)
       => ENABLED (\E m \in Methods, p \in Paths : Accept(m, p))

\* the attempts of the run that bound the socket
Successes == {i \in 1..Len(attempts) : attempts[i].errno = NoErr}

\* C15: the listening socket is bound exactly once and before any
\* connection is accepted; a failed startup accepts no connection and
\* leaves no socket open; shutdown after a successful start releases it.
StartupOrdering ==
    /\ Cardinality(Successes) <= 1
    /\ pc # "idle" => Successes = {Len(attempts)}
    /\ pcMain = "binding" => pc = "idle" /\ Successes = {} /\ open_sockets = {}
    /\ pcMain \in {"returned", "raised"}
          => pc = "idle" /\ Successes = {} /\ open_sockets = {}
    /\ pcMain = "serving" => Successes = {Len(attempts)} /\ open_sockets = {httpd}
    /\ pcMain = "stopped" => Successes = {Len(attempts)} /\ open_sockets = {}

\* bound after an occupied port, a request answered, then stopped
StartupOrderingWitness ==
    /\ script = "server"
    /\ pcMain = "stopped"
    /\ Len(attempts) > 1
    /\ pc = "done"
    /\ open_sockets = {}

====
